---- MODULE Spec2Model ----
(***************************************************************************)
(* Model of src/data_fetcher.py: the lithium-carbonate market data         *)
(* pipeline (LithiumMarketDataFetcher and main).                           *)
(*                                                                         *)
(* Conventions.                                                            *)
(*  - A text (a Python str) is a sequence of one-character strings.        *)
(*  - A float is the integer number of tenths it denotes: 80500.0 is       *)
(*    805000, -0.5 is -5, 0.3 is 3.  Every float the code computes is a    *)
(*    multiple of 0.1 (a midpoint of two integers is a multiple of 0.5),   *)
(*    so the arithmetic is exact.                                          *)
(*  - A calendar date string '%Y-%m-%d' is the triple <<year, month, day>>;*)
(*    the wall clock is the number of days elapsed since 2024-01-01.       *)
(***************************************************************************)
EXTENDS Integers, Sequences, FiniteSets

(***************************************************************************)
(* Bounds of the model.                                                    *)
(***************************************************************************)
\* a page text is the concatenation of at most MaxPieces pieces of Pieces
MaxPieces == 3
\* a language-model reply has at most MaxReplyLen characters
MaxReplyLen == 3
\* the wall clock passes midnight at most MaxMidnights times during a run
MaxMidnights == 1

(***************************************************************************)
(* Texts.                                                                  *)
(***************************************************************************)
Digits == {"0", "1", "2", "3", "4", "5", "6", "7", "8", "9"}

WhiteSpace == {" ", "\t", "\n"}

\* \d of the patterns, on the characters of the model's alphabet
IsDigit(c) == c \in Digits

\* \s of the patterns
IsSpace(c) == c \in WhiteSpace

DigitVal(c) ==
    CASE c = "0" -> 0 [] c = "1" -> 1 [] c = "2" -> 2 [] c = "3" -> 3
      [] c = "4" -> 4 [] c = "5" -> 5 [] c = "6" -> 6 [] c = "7" -> 7
      [] c = "8" -> 8 [] c = "9" -> 9

RECURSIVE IntOf(_)
\* the integer a string of decimal digits denotes
IntOf(s) ==
    IF s = <<>> THEN 0
    ELSE 10 * IntOf(SubSeq(s, 1, Len(s) - 1)) + DigitVal(s[Len(s)])

\* a whole number as a float (in tenths)
Tenths(n) == n * 10

\* float(s) of a string of decimal digits
Float(s) == Tenths(IntOf(s))

\* Python's None, for a price not (yet) extracted; no float(s) is negative
None == -1

\* the fragments page texts are built from
Pieces ==
    { <<"8", "0", "5", "0", "0">>,
      <<"8", "2", "3", "0", "0">>,
      <<"1", "2", "3", "4">>,
      <<"-">>, <<" ">>, <<"x">> }

RECURSIVE TextsUpTo(_)
TextsUpTo(n) ==
    IF n = 0 THEN {<<>>}
    ELSE LET shorter == TextsUpTo(n - 1)
         IN  shorter \cup {t \o p : t \in shorter, p \in Pieces}

\* the visible texts soup.get_text() may return
PageTexts == TextsUpTo(MaxPieces)

(***************************************************************************)
(* re.findall on the two price patterns.  Only matches[0] and the          *)
(* emptiness of matches are read by the code, so the model computes the    *)
(* first match: the leftmost position where the pattern matches, the      *)
(* alternatives tried in order at that position.                           *)
(***************************************************************************)
\* \d{5} matches at position i of t
FiveDigitsAt(t, i) ==
    /\ i >= 1
    /\ i + 4 <= Len(t)
    /\ \A k \in i .. i + 4 : IsDigit(t[k])

\* the leftmost position where \d{5} matches, 0 if there is none
FirstRun(t) ==
    LET S == {i \in 1 .. Len(t) : FiveDigitsAt(t, i)}
    IN  IF S = {} THEN 0 ELSE CHOOSE i \in S : \A j \in S : i <= j

RECURSIVE SkipSpace(_, _)
\* \s* from position j: the position after the white space
SkipSpace(t, j) ==
    IF j <= Len(t) /\ IsSpace(t[j]) THEN SkipSpace(t, j + 1) ELSE j

\* (\d{5})\s*-\s*(\d{5}) at position i: the position of the second group,
\* 0 if the first alternative does not match there
PairAt(t, i) ==
    LET j == SkipSpace(t, i + 5)
    IN  IF j <= Len(t) /\ t[j] = "-"
        THEN LET k == SkipSpace(t, j + 1)
             IN  IF FiveDigitsAt(t, k) THEN k ELSE 0
        ELSE 0

\* re.findall(r'(\d{5})\s*-\s*(\d{5})|(\d{5})', text), cut after matches[0]:
\* a sequence of group triples, an unmatched group being the empty string
SmmMatches(text) ==
    LET i == FirstRun(text)
    IN  IF i = 0 THEN <<>>
        ELSE LET k == PairAt(text, i)
             IN  IF k # 0
                 THEN << <<SubSeq(text, i, i + 4), SubSeq(text, k, k + 4), <<>> >> >>
                 ELSE << << <<>>, <<>>, SubSeq(text, i, i + 4) >> >>

\* re.findall(r'(\d{5})', text), cut after matches[0]
FuturesMatches(text) ==
    LET i == FirstRun(text)
    IN  IF i = 0 THEN <<>> ELSE << SubSeq(text, i, i + 4) >>

(***************************************************************************)
(* The calendar: datetime arithmetic and strftime('%Y-%m-%d').             *)
(***************************************************************************)
IsLeap(y) == (y % 4 = 0 /\ y % 100 # 0) \/ y % 400 = 0

DaysInMonth(y, m) ==
    IF m \in {1, 3, 5, 7, 8, 10, 12} THEN 31
    ELSE IF m = 2 THEN (IF IsLeap(y) THEN 29 ELSE 28)
    ELSE 30

RECURSIVE YMDFrom(_, _, _)
\* the date n days after the first day of month m of year y
YMDFrom(y, m, n) ==
    IF n < DaysInMonth(y, m) THEN <<y, m, n + 1>>
    ELSE IF m = 12 THEN YMDFrom(y + 1, 1, n - DaysInMonth(y, m))
    ELSE YMDFrom(y, m + 1, n - DaysInMonth(y, m))

\* (datetime of day number `day`).strftime('%Y-%m-%d')
DateStr(day) == YMDFrom(2024, 1, day)

\* the days a run may start on: 2024-03-15 (the 30 days before it span the
\* leap day) and 2025-01-10 (they span the turn of the year)
StartDays == {74, 375}

(***************************************************************************)
(* fetch_smm_price.  `resp` is what the environment answers to the GET:    *)
(* status "get_raises" (network error, timeout), "parse_raises" (the       *)
(* parsing raises) or "ok" with the page's visible text.                   *)
(***************************************************************************)
ResponsesOn(texts) ==
    { [status |-> "get_raises", text |-> <<>>] }
      \cup [status : {"parse_raises", "ok"}, text : texts]

\* the page texts of the pipeline's runs, one for each way an extraction
\* can go: no digit, too few digits, one number, a pair
PipelinePages ==
    { <<>>,
      <<"1", "2", "3", "4">>,
      <<"8", "0", "5", "0", "0">>,
      <<"8", "0", "5", "0", "0", "-", "8", "2", "3", "0", "0">> }

\* the value of a local that holds no response
NoResponse == [status |-> "none", text |-> <<>>]

\* lines 79-84: the dict the except branch returns
SmmFallback(now) ==
    [ date |-> DateStr(now),
      battery_grade_price |-> 805000,
      industrial_grade_price |-> 783000,
      change |-> -5 ]

\* lines 55-62: battery_grade_price after the extraction
SmmBattery(text) ==
    LET matches == SmmMatches(text)
    IN  IF matches # <<>>
        THEN IF matches[1][1] # <<>>
             THEN LET low == Float(matches[1][1])
                      high == Float(matches[1][2])
                  IN  (low + high) \div 2
             ELSE IF matches[1][3] # <<>>
                  THEN Float(matches[1][3])
                  ELSE None
        ELSE None

\* SmmPriceData without the backfill of lines 65-69: a miss returns the
\* initial values of lines 43-45
SmmPriceData_NoBackfill(text, now) ==
    LET battery == SmmBattery(text)
    IN  IF battery = None
        THEN [ date |-> DateStr(now),
               battery_grade_price |-> None,
               industrial_grade_price |-> None,
               change |-> 0 ]
        ELSE [ date |-> DateStr(now),
               battery_grade_price |-> battery,
               industrial_grade_price |-> battery - Tenths(2200),
               change |-> -5 ]

\* SmmPriceData deriving the industrial grade from the low end of the range,
\* not from the midpoint
SmmPriceData_WrongOffset(text, now) ==
    LET battery == SmmBattery(text)
        matches == SmmMatches(text)
        low == IF matches # <<>> /\ matches[1][1] # <<>>
               THEN Float(matches[1][1]) ELSE battery
    IN  IF battery = None
        THEN [ date |-> DateStr(now),
               battery_grade_price |-> 805000,
               industrial_grade_price |-> 783000,
               change |-> -5 ]
        ELSE [ date |-> DateStr(now),
               battery_grade_price |-> battery,
               industrial_grade_price |-> low - Tenths(2200),
               change |-> -5 ]

\* SmmPriceData without line 72: an extracted price keeps the change of line 45
SmmPriceData_ChangeUnset(text, now) ==
    LET battery == SmmBattery(text)
    IN  IF battery = None
        THEN [ date |-> DateStr(now),
               battery_grade_price |-> 805000,
               industrial_grade_price |-> 783000,
               change |-> -5 ]
        ELSE [ date |-> DateStr(now),
               battery_grade_price |-> battery,
               industrial_grade_price |-> battery - Tenths(2200),
               change |-> 0 ]

\* lines 41-74: the try branch, on the page's visible text
SmmPriceData(text, now) ==
    LET battery == SmmBattery(text)
    IN  IF battery = None
        THEN [ date |-> DateStr(now),
               battery_grade_price |-> 805000,
               industrial_grade_price |-> 783000,
               change |-> -5 ]
        ELSE [ date |-> DateStr(now),
               battery_grade_price |-> battery,
               industrial_grade_price |-> battery - Tenths(2200),
               change |-> -5 ]

\* the value fetch_smm_price returns
fetch_smm_price(resp, now) ==
    IF resp.status = "ok" THEN SmmPriceData(resp.text, now) ELSE SmmFallback(now)

\* the branch of fetch_smm_price that produced the value
SmmPath(resp) ==
    IF resp.status # "ok" THEN "except"
    ELSE IF SmmMatches(resp.text) = <<>> THEN "miss"
    ELSE IF SmmMatches(resp.text)[1][1] # <<>> THEN "pair"
    ELSE "single"

(***************************************************************************)
(* fetch_futures_price.                                                    *)
(***************************************************************************)
\* lines 127-130: the dict the except branch returns
FuturesFallback == [futures_price |-> 798000, futures_change |-> 3]

\* FuturesData without line 114: a match keeps the change of line 102
FuturesData_ChangeUnset(text) ==
    LET matches == FuturesMatches(text)
        found == IF matches # <<>>
                 THEN [futures_price |-> Float(matches[1]), futures_change |-> 0]
                 ELSE [futures_price |-> None, futures_change |-> 0]
    IN  IF found.futures_price = None
        THEN [futures_price |-> 798000, futures_change |-> 3]
        ELSE found

\* lines 100-122: the try branch, on the page's visible text
FuturesData(text) ==
    LET matches == FuturesMatches(text)
        found == IF matches # <<>>
                 THEN [futures_price |-> Float(matches[1]), futures_change |-> 3]
                 ELSE [futures_price |-> None, futures_change |-> 0]
    IN  IF found.futures_price = None
        THEN [futures_price |-> 798000, futures_change |-> 3]
        ELSE found

\* the value fetch_futures_price returns
fetch_futures_price(resp) ==
    IF resp.status = "ok" THEN FuturesData(resp.text) ELSE FuturesFallback

\* the branch of fetch_futures_price that produced the value
FuturesPath(resp) ==
    IF resp.status # "ok" THEN "except"
    ELSE IF FuturesMatches(resp.text) = <<>> THEN "miss"
    ELSE "match"

(***************************************************************************)
(* generate_price_history: one point of the loop.                          *)
(***************************************************************************)
\* line 137
base_price == 80500

\* line 139: range(30, 0, -1) starts at HistoryDays and stops before 0
HistoryDays == 30

\* HistoryPoint with the days counted from tomorrow: the newest point is today
HistoryPoint_OffByOne(i, now) ==
    [date |-> DateStr(now - i + 1), price |-> base_price + (i % 10) * 500 - 2000]

\* lines 140-146: the point appended for loop index i when the clock reads `now`
HistoryPoint(i, now) ==
    [date |-> DateStr(now - i), price |-> base_price + (i % 10) * 500 - 2000]

(***************************************************************************)
(* generate_ai_analysis.  `llm` is what the language-model call does:      *)
(* status "raises" (network, authentication, quota), "no_choices" or       *)
(* "null_content" (a malformed response, on which line 223 raises) or      *)
(* "ok" with the content of the first choice.                              *)
(***************************************************************************)
ReplyChars == {" ", "a"}

RECURSIVE RepliesUpTo(_)
RepliesUpTo(n) ==
    IF n = 0 THEN {<<>>}
    ELSE LET shorter == RepliesUpTo(n - 1)
         IN  shorter \cup {t \o <<c>> : t \in shorter, c \in ReplyChars}

LLMOutcomes ==
    [status : {"raises", "no_choices", "null_content"}, content : {<<>>}]
      \cup [status : {"ok"}, content : RepliesUpTo(MaxReplyLen)]

RECURSIVE LStrip(_)
LStrip(s) == IF s # <<>> /\ IsSpace(Head(s)) THEN LStrip(Tail(s)) ELSE s

RECURSIVE RStrip(_)
RStrip(s) ==
    IF s # <<>> /\ IsSpace(s[Len(s)]) THEN RStrip(SubSeq(s, 1, Len(s) - 1)) ELSE s

\* str.strip()
Strip(s) == RStrip(LStrip(s))

\* the three canned sentences of lines 232, 234 and 236, each written as a
\* one-symbol text that names it
RisingSentence == <<"rising">>
FallingSentence == <<"falling">>
FlatSentence == <<"flat">>

\* CannedSummary with >= for >: no change reads as a rise
CannedSummary_ZeroRises(change) ==
    IF change >= 0 THEN RisingSentence
    ELSE IF change < 0 THEN FallingSentence
    ELSE FlatSentence

\* lines 230-236: the except branch
CannedSummary(change) ==
    IF change > 0 THEN RisingSentence
    ELSE IF change < 0 THEN FallingSentence
    ELSE FlatSentence

\* lines 199-223 raise: formatting a None price with :.0f, the call itself,
\* or reading choices[0].message.content.strip() of a malformed response
SummaryRaises(md, llm) ==
    \/ md.spot_price.battery_grade = None
    \/ md.futures_price.lc_main = None
    \/ llm.status # "ok"

\* the value generate_ai_analysis returns
generate_ai_analysis(md, llm) ==
    IF SummaryRaises(md, llm)
    THEN CannedSummary(md.spot_price.daily_change_percent)
    ELSE Strip(llm.content)

(***************************************************************************)
(* The state.                                                              *)
(***************************************************************************)
VARIABLES
    pc,             \* the position of the process
    caller,         \* "main": the pipeline; "unit": one method called alone
    today,          \* the wall clock's day
    midnights,      \* how often the clock has passed midnight
    resp,           \* the pending HTTP response of the fetcher in progress
    spot_price,     \* fetch_all_data's local spot_price
    spotPath,       \* the branch fetch_smm_price took
    futures_price,  \* fetch_all_data's local futures_price
    futPath,        \* the branch fetch_futures_price took
    i,              \* generate_price_history's loop index
    history,        \* generate_price_history's list
    clockReads,     \* the days datetime.now() gave to the loop, one per point
    market_data,    \* main's market_data
    ai_analysis,    \* main's ai_analysis
    llmPath,        \* the branch generate_ai_analysis took
    data_file,      \* the file at self.data_file
    printed,        \* what line 254 wrote to standard output
    trace,          \* the stages entered, in order
    raisedAt        \* where an exception left the process, "" if none did

vars ==
    << pc, caller, today, midnights, resp, spot_price, spotPath, futures_price,
       futPath, i, history, clockReads, market_data, ai_analysis, llmPath,
       data_file, printed, trace, raisedAt >>

\* a local not assigned yet
Unassigned == [unassigned |-> TRUE]

\* no file at the path
NoFile == [state |-> "absent"]

\* the stages of a run, in the order main and fetch_all_data call them
StageOrder ==
    << "fetch_spot", "fetch_futures", "history", "aggregate", "summarize",
       "persist", "print" >>

InitCommon ==
    /\ today \in StartDays
    /\ midnights = 0
    /\ resp = NoResponse
    /\ spot_price = Unassigned
    /\ spotPath = "none"
    /\ futures_price = Unassigned
    /\ futPath = "none"
    /\ i = HistoryDays
    /\ history = <<>>
    /\ clockReads = <<>>
    /\ ai_analysis = <<>>
    /\ llmPath = "none"
    /\ data_file = NoFile
    /\ printed = Unassigned
    /\ trace = <<>>
    /\ raisedAt = ""

\* the process starts: the module is imported, then main runs
Init ==
    /\ InitCommon
    /\ pc = "import"
    /\ caller = "main"
    /\ market_data = Unassigned

\* where a method returns to: the next statement of the pipeline, or the
\* end of a call made on its own
ReturnTo(next) == IF caller = "main" THEN next ELSE "done"

(***************************************************************************)
(* The environment: time passes.                                           *)
(***************************************************************************)
\* the wall clock passes midnight while the process runs
Tick ==
    /\ pc \notin {"done", "crashed"}
    /\ midnights < MaxMidnights
    /\ today' = today + 1
    /\ midnights' = midnights + 1
    /\ UNCHANGED << pc, caller, resp, spot_price, spotPath, futures_price,
                    futPath, i, history, clockReads, market_data, ai_analysis,
                    llmPath, data_file, printed, trace, raisedAt >>

(***************************************************************************)
(* The process.                                                            *)
(***************************************************************************)
\* line 15, run when the module is imported: client = OpenAI() raises when
\* the environment holds no credential, and nothing catches it
ClientInit ==
    /\ pc = "import"
    /\ \E constructed \in BOOLEAN :
          IF constructed
          THEN /\ pc' = "main"
               /\ raisedAt' = raisedAt
          ELSE /\ pc' = "crashed"
               /\ raisedAt' = "client"
    /\ UNCHANGED << caller, today, midnights, resp, spot_price, spotPath,
                    futures_price, futPath, i, history, clockReads, market_data,
                    ai_analysis, llmPath, data_file, printed, trace >>

\* lines 241-244 and 154: main builds the fetcher and calls fetch_all_data
MainStart ==
    /\ pc = "main"
    /\ pc' = "spot_get"
    /\ UNCHANGED << caller, today, midnights, resp, spot_price, spotPath,
                    futures_price, futPath, i, history, clockReads, market_data,
                    ai_analysis, llmPath, data_file, printed, trace, raisedAt >>

\* line 35: the GET of fetch_smm_price ends, with a response or an exception
SpotGet(texts) ==
    /\ pc = "spot_get"
    /\ \E r \in ResponsesOn(texts) : resp' = r
    /\ pc' = "spot_parse"
    /\ trace' = Append(trace, "fetch_spot")
    /\ UNCHANGED << caller, today, midnights, spot_price, spotPath, futures_price,
                    futPath, i, history, clockReads, market_data, ai_analysis,
                    llmPath, data_file, printed, raisedAt >>

\* lines 36-84 and 157: the rest of fetch_smm_price, and its return
SpotParse ==
    /\ pc = "spot_parse"
    /\ spot_price' = fetch_smm_price(resp, today)
    /\ spotPath' = SmmPath(resp)
    /\ resp' = NoResponse
    /\ pc' = ReturnTo("fut_get")
    /\ UNCHANGED << caller, today, midnights, futures_price, futPath, i, history,
                    clockReads, market_data, ai_analysis, llmPath, data_file,
                    printed, trace, raisedAt >>

\* line 94: the GET of fetch_futures_price ends
FutGet(texts) ==
    /\ pc = "fut_get"
    /\ \E r \in ResponsesOn(texts) : resp' = r
    /\ pc' = "fut_parse"
    /\ trace' = Append(trace, "fetch_futures")
    /\ UNCHANGED << caller, today, midnights, spot_price, spotPath, futures_price,
                    futPath, i, history, clockReads, market_data, ai_analysis,
                    llmPath, data_file, printed, raisedAt >>

\* lines 95-130 and 160: the rest of fetch_futures_price, and its return
FutParse ==
    /\ pc = "fut_parse"
    /\ futures_price' = fetch_futures_price(resp)
    /\ futPath' = FuturesPath(resp)
    /\ resp' = NoResponse
    /\ pc' = ReturnTo("hist_start")
    /\ UNCHANGED << caller, today, midnights, spot_price, spotPath, i, history,
                    clockReads, market_data, ai_analysis, llmPath, data_file,
                    printed, trace, raisedAt >>

\* lines 136-137: generate_price_history is entered
HistoryStart ==
    /\ pc = "hist_start"
    /\ history' = <<>>
    /\ clockReads' = <<>>
    /\ i' = HistoryDays
    /\ pc' = "hist_loop"
    /\ trace' = Append(trace, "history")
    /\ UNCHANGED << caller, today, midnights, resp, spot_price, spotPath,
                    futures_price, futPath, market_data, ai_analysis, llmPath,
                    data_file, printed, raisedAt >>

\* lines 139-146: one iteration; datetime.now() is read in each
HistoryStep ==
    /\ pc = "hist_loop"
    /\ i > 0
    /\ history' = Append(history, HistoryPoint(i, today))
    /\ clockReads' = Append(clockReads, today)
    /\ i' = i - 1
    /\ UNCHANGED << pc, caller, today, midnights, resp, spot_price, spotPath,
                    futures_price, futPath, market_data, ai_analysis, llmPath,
                    data_file, printed, trace, raisedAt >>

\* lines 148 and 163: the loop is exhausted and the list returned
HistoryReturn ==
    /\ pc = "hist_loop"
    /\ i = 0
    /\ pc' = ReturnTo("aggregate")
    /\ UNCHANGED << caller, today, midnights, resp, spot_price, spotPath,
                    futures_price, futPath, i, history, clockReads, market_data,
                    ai_analysis, llmPath, data_file, printed, trace, raisedAt >>

\* lines 166-181 and 244: the report is assembled and returned to main
Aggregate ==
    /\ pc = "aggregate"
    /\ market_data' =
          [ timestamp |-> DateStr(today),
            date |-> spot_price.date,
            spot_price |->
                [ battery_grade |-> spot_price.battery_grade_price,
                  industrial_grade |-> spot_price.industrial_grade_price,
                  daily_change_percent |-> spot_price.change ],
            futures_price |->
                [ lc_main |-> futures_price.futures_price,
                  daily_change_percent |-> futures_price.futures_change ],
            price_history |-> history ]
    /\ pc' = "summarize"
    /\ trace' = Append(trace, "aggregate")
    /\ UNCHANGED << caller, today, midnights, resp, spot_price, spotPath,
                    futures_price, futPath, i, history, clockReads, ai_analysis,
                    llmPath, data_file, printed, raisedAt >>

\* lines 194-236 and 247: generate_ai_analysis, with the language-model call
Summarize ==
    /\ pc = "summarize"
    /\ \E llm \in LLMOutcomes :
          /\ ai_analysis' = generate_ai_analysis(market_data, llm)
          /\ llmPath' = IF SummaryRaises(market_data, llm) THEN "except" ELSE "ok"
    /\ pc' = ReturnTo("attach")
    /\ trace' = Append(trace, "summarize")
    /\ UNCHANGED << caller, today, midnights, resp, spot_price, spotPath,
                    futures_price, futPath, i, history, clockReads, market_data,
                    data_file, printed, raisedAt >>

\* line 248: market_data['ai_analysis'] = ai_analysis
Attach ==
    /\ pc = "attach"
    /\ market_data' =
          [ timestamp |-> market_data.timestamp,
            date |-> market_data.date,
            spot_price |-> market_data.spot_price,
            futures_price |-> market_data.futures_price,
            price_history |-> market_data.price_history,
            ai_analysis |-> ai_analysis ]
    /\ pc' = "persist"
    /\ UNCHANGED << caller, today, midnights, resp, spot_price, spotPath,
                    futures_price, futPath, i, history, clockReads, ai_analysis,
                    llmPath, data_file, printed, trace, raisedAt >>

\* SaveData retried after a failure
SaveData_Retry ==
    /\ pc = "persist"
    /\ \E outcome \in {"makedirs_raises", "open_raises", "dump_raises", "ok"} :
          /\ data_file' =
                IF outcome = "ok" THEN [state |-> "written", report |-> market_data]
                ELSE IF outcome = "dump_raises" THEN [state |-> "partial"]
                ELSE data_file
          /\ pc' = IF outcome = "ok" THEN "print"
                   ELSE IF Len(trace) < Len(StageOrder) THEN "persist"
                   ELSE "crashed"
          /\ raisedAt' = IF outcome = "ok" \/ Len(trace) < Len(StageOrder)
                         THEN raisedAt ELSE "save_data"
    /\ trace' = Append(trace, "persist")
    /\ UNCHANGED << caller, today, midnights, resp, spot_price, spotPath,
                    futures_price, futPath, i, history, clockReads, market_data,
                    ai_analysis, llmPath, printed >>

\* lines 183-192 and 251: save_data.  makedirs or open may raise, leaving the
\* path as it was; json.dump may raise after open truncated the file; nothing
\* catches either
SaveData ==
    /\ pc = "persist"
    /\ \E outcome \in {"makedirs_raises", "open_raises", "dump_raises", "ok"} :
          /\ data_file' =
                IF outcome = "ok" THEN [state |-> "written", report |-> market_data]
                ELSE IF outcome = "dump_raises" THEN [state |-> "partial"]
                ELSE data_file
          /\ pc' = IF outcome = "ok" THEN "print" ELSE "crashed"
          /\ raisedAt' = IF outcome = "ok" THEN raisedAt ELSE "save_data"
    /\ trace' = Append(trace, "persist")
    /\ UNCHANGED << caller, today, midnights, resp, spot_price, spotPath,
                    futures_price, futPath, i, history, clockReads, market_data,
                    ai_analysis, llmPath, printed >>

\* lines 253-254: the report is written to standard output
PrintReport ==
    /\ pc = "print"
    /\ printed' = market_data
    /\ pc' = "done"
    /\ trace' = Append(trace, "print")
    /\ UNCHANGED << caller, today, midnights, resp, spot_price, spotPath,
                    futures_price, futPath, i, history, clockReads, market_data,
                    ai_analysis, llmPath, data_file, raisedAt >>

Next ==
    \/ Tick
    \/ ClientInit
    \/ MainStart
    \/ SpotGet(PipelinePages)
    \/ SpotParse
    \/ FutGet(PipelinePages)
    \/ FutParse
    \/ HistoryStart
    \/ HistoryStep
    \/ HistoryReturn
    \/ Aggregate
    \/ Summarize
    \/ Attach
    \/ SaveData
    \/ PrintReport

\* the pipeline: one run of the process
Spec == Init /\ [][Next]_vars

(***************************************************************************)
(* The methods called on their own, on every input of the bounded sets.    *)
(***************************************************************************)
InitSpot ==
    /\ InitCommon
    /\ pc = "spot_get"
    /\ caller = "unit"
    /\ market_data = Unassigned

NextSpot ==
    \/ Tick
    \/ SpotGet(PageTexts)
    \/ SpotParse

\* fetch_smm_price called alone
SpecSpot == InitSpot /\ [][NextSpot]_vars

InitFutures ==
    /\ InitCommon
    /\ pc = "fut_get"
    /\ caller = "unit"
    /\ market_data = Unassigned

NextFutures ==
    \/ Tick
    \/ FutGet(PageTexts)
    \/ FutParse

\* fetch_futures_price called alone
SpecFutures == InitFutures /\ [][NextFutures]_vars

InitHistory ==
    /\ InitCommon
    /\ pc = "hist_start"
    /\ caller = "unit"
    /\ market_data = Unassigned

NextHistory ==
    \/ Tick
    \/ HistoryStart
    \/ HistoryStep
    \/ HistoryReturn

\* generate_price_history called alone
SpecHistory == InitHistory /\ [][NextHistory]_vars

\* the day's changes generate_ai_analysis is called with, in tenths of a percent
ChangeValues == {-10, -5, -1, 0, 1, 3, 10}

\* the reports generate_ai_analysis is called with
SummaryInputs ==
    { [ timestamp |-> DateStr(d),
        date |-> DateStr(d),
        spot_price |->
            [ battery_grade |-> b,
              industrial_grade |-> IF b = None THEN None ELSE b - Tenths(2200),
              daily_change_percent |-> c ],
        futures_price |-> [lc_main |-> f, daily_change_percent |-> 3],
        price_history |-> <<>> ] :
      d \in StartDays, b \in {None, 805000}, c \in ChangeValues,
      f \in {None, 798000} }

InitSummary ==
    /\ InitCommon
    /\ pc = "summarize"
    /\ caller = "unit"
    /\ market_data \in SummaryInputs

NextSummary ==
    \/ Tick
    \/ Summarize

\* generate_ai_analysis called alone
SpecSummary == InitSummary /\ [][NextSummary]_vars

(***************************************************************************)
(* Vocabulary of the properties.                                           *)
(***************************************************************************)
\* the text holds five decimal digits in a row
HasFiveDigits(t) ==
    \E k \in 1 .. Len(t) :
        /\ k + 4 <= Len(t)
        /\ \A d \in 0 .. 4 : t[k + d] \in Digits

\* the first five digits in a row of a text that holds some
LeftmostFive(t) ==
    LET k == CHOOSE a \in 1 .. Len(t) :
                 /\ a + 4 <= Len(t)
                 /\ \A d \in 0 .. 4 : t[a + d] \in Digits
                 /\ \A b \in 1 .. a - 1 : \E d \in 0 .. 4 : t[b + d] \notin Digits
    IN  SubSeq(t, k, k + 4)

\* every field of the report is there and none is None
ReportComplete(md) ==
    /\ DOMAIN md = { "timestamp", "date", "spot_price", "futures_price",
                     "price_history", "ai_analysis" }
    /\ md.spot_price.battery_grade # None
    /\ md.spot_price.industrial_grade # None
    /\ md.futures_price.lc_main # None
    /\ md.spot_price.daily_change_percent \in Int
    /\ md.futures_price.daily_change_percent \in Int
    /\ Len(md.timestamp) = 3
    /\ Len(md.date) = 3
    /\ Len(md.price_history) = HistoryDays

\* main has reached save_data
ReachedSave == pc \in {"persist", "print", "done"} \/ raisedAt = "save_data"

\* s is an initial segment of t
IsPrefix(s, t) == Len(s) <= Len(t) /\ s = SubSeq(t, 1, Len(s))

\* date strings compared as strings: zero-padded, so field by field
DateLess(a, b) ==
    \/ a[1] < b[1]
    \/ a[1] = b[1] /\ a[2] < b[2]
    \/ a[1] = b[1] /\ a[2] = b[2] /\ a[3] < b[3]

\* the calendar day after date a
DayAfter(a) ==
    IF a[3] < DaysInMonth(a[1], a[2]) THEN <<a[1], a[2], a[3] + 1>>
    ELSE IF a[2] < 12 THEN <<a[1], a[2] + 1, 1>>
    ELSE <<a[1] + 1, 1, 1>>

\* generate_price_history has run its loop to the end
HistoryDone == i = 0

\* every datetime.now() of the loop fell on the same day
ClockFixed == \A k \in 1 .. Len(clockReads) : clockReads[k] = clockReads[1]

(***************************************************************************)
(* C1.  A run of main in which both GETs raise: whatever the language      *)
(* model does, no exception leaves the run before save_data, and the       *)
(* report handed to save_data has every field non-null and a non-empty     *)
(* ai_analysis.  Violated: a reply of white space only is stripped to the  *)
(* empty string and attached as ai_analysis.                               *)
(***************************************************************************)
C1_EveryReplyGivesSummary ==
    (spotPath = "except" /\ futPath = "except")
        => /\ raisedAt \in {"", "save_data"}
           /\ ReachedSave
                => /\ ReportComplete(market_data)
                   /\ market_data.ai_analysis # <<>>

(***************************************************************************)
(* C2.  Every recoverable failure is absorbed: the only exception that     *)
(* ends a run comes from save_data, and a run always gets to save_data     *)
(* with a complete report.  Violated: the client construction of line 15   *)
(* raises without a credential, outside every try.                         *)
(***************************************************************************)
C2_OnlySaveTerminates ==
    /\ pc = "crashed" => raisedAt = "save_data"
    /\ ReachedSave => ReportComplete(market_data)

(***************************************************************************)
(* C3.  When the GET or the parsing raises, or the page text holds no five *)
(* digits in a row, fetch_smm_price returns battery 80500.0, industrial    *)
(* 78300.0 and change -0.5; no exception escapes and no price is None.     *)
(***************************************************************************)
C3_SmmFallback ==
    [][ ( /\ pc = "spot_parse"
          /\ pc' # "spot_parse"
          /\ resp.status # "ok" \/ ~HasFiveDigits(resp.text) )
        => /\ pc' = "done"
           /\ raisedAt' = ""
           /\ spot_price'.battery_grade_price = 805000
           /\ spot_price'.industrial_grade_price = 783000
           /\ spot_price'.change = -5
           /\ spot_price'.battery_grade_price # None
           /\ spot_price'.industrial_grade_price # None ]_vars

C3_Witness ==
    /\ pc = "done"
    /\ spotPath = "miss"
    /\ spot_price.battery_grade_price = 805000
    /\ spot_price.industrial_grade_price = 783000
    /\ spot_price.change = -5

(***************************************************************************)
(* C4.  When the GET or the parsing raises, or the page text holds no five *)
(* digits in a row, fetch_futures_price returns price 79800.0 and change   *)
(* 0.3; otherwise it returns the first five digits as the price with       *)
(* change 0.3.  The initial None and 0.0 are never returned.               *)
(***************************************************************************)
C4_FuturesResult ==
    [][ (pc = "fut_parse" /\ pc' # "fut_parse")
        => /\ pc' = "done"
           /\ raisedAt' = ""
           /\ futures_price'.futures_price # None
           /\ futures_price'.futures_change # 0
           /\ IF resp.status # "ok" \/ ~HasFiveDigits(resp.text)
              THEN futures_price' = [futures_price |-> 798000, futures_change |-> 3]
              ELSE futures_price' =
                      [ futures_price |-> Tenths(IntOf(LeftmostFive(resp.text))),
                        futures_change |-> 3 ] ]_vars

C4_Witness ==
    /\ pc = "done"
    /\ futPath = "match"
    /\ futures_price = [futures_price |-> 123480, futures_change |-> 3]

(***************************************************************************)
(* C5.  On the success path of fetch_smm_price (the page text holds a      *)
(* five-digit number or a pair), the industrial-grade price returned is    *)
(* the battery-grade price returned minus 2200.                            *)
(***************************************************************************)
C5_IndustrialOffset ==
    [][ ( /\ pc = "spot_parse"
          /\ pc' # "spot_parse"
          /\ resp.status = "ok"
          /\ HasFiveDigits(resp.text) )
        => /\ spot_price'.battery_grade_price # None
           /\ spot_price'.industrial_grade_price
                 = spot_price'.battery_grade_price - 22000 ]_vars

C5_Witness ==
    /\ pc = "done"
    /\ spotPath = "pair"
    /\ spot_price.battery_grade_price = 814000
    /\ spot_price.industrial_grade_price = 792000

(***************************************************************************)
(* C6.  When every clock read of generate_price_history falls on one day   *)
(* D, it returns 30 points, oldest first, with strictly increasing dates   *)
(* D-30 .. D-1, the point of D-n having price 80500 + (n mod 10)*500-2000. *)
(***************************************************************************)
C6_HistoryForFixedDate ==
    (HistoryDone /\ ClockFixed)
        => /\ Len(history) = 30
           /\ \A k \in 1 .. 30 :
                 /\ history[k].date = DateStr(clockReads[1] - (31 - k))
                 /\ history[k].price = 80500 + ((31 - k) % 10) * 500 - 2000
           /\ \A k \in 1 .. 29 : DateLess(history[k].date, history[k + 1].date)
           /\ DayAfter(history[30].date) = DateStr(clockReads[1])

C6_Witness ==
    /\ pc = "done"
    /\ HistoryDone
    /\ ClockFixed
    /\ Len(history) = 30
    /\ history[1] = [date |-> <<2024, 2, 14>>, price |-> 78500]
    /\ history[30] = [date |-> <<2024, 3, 14>>, price |-> 79000]

(***************************************************************************)
(* C7.  When the try block of generate_ai_analysis raises, the summary     *)
(* returned is the rising sentence for a change above zero, the falling    *)
(* sentence for a change below zero and the flat sentence for a change of  *)
(* zero, and no exception escapes.                                         *)
(***************************************************************************)
C7_FallbackBySign ==
    llmPath = "except"
        => /\ pc = "done"
           /\ raisedAt = ""
           /\ market_data.spot_price.daily_change_percent > 0
                 => ai_analysis = RisingSentence
           /\ market_data.spot_price.daily_change_percent < 0
                 => ai_analysis = FallingSentence
           /\ market_data.spot_price.daily_change_percent = 0
                 => ai_analysis = FlatSentence

C7_Witness ==
    /\ llmPath = "except"
    /\ market_data.spot_price.daily_change_percent = 0
    /\ market_data.spot_price.battery_grade # None
    /\ ai_analysis = FlatSentence

(***************************************************************************)
(* C8, as stated.  In every run of main the seven stages are entered in    *)
(* the fixed order and each exactly once: a run that has ended has entered *)
(* all seven; the file is written only with ai_analysis attached.          *)
(* Violated: save_data raises and the run ends without the print stage.    *)
(***************************************************************************)
C8_EveryStageExactlyOnce ==
    /\ IsPrefix(trace, StageOrder)
    /\ (trace # <<>> /\ pc \in {"done", "crashed"}) => trace = StageOrder
    /\ data_file.state = "written" => "ai_analysis" \in DOMAIN data_file.report

(***************************************************************************)
(* C8, amended.  The stages are entered in the fixed order, each at most   *)
(* once and none again after a failure; a run that ends without an         *)
(* exception has entered all seven, and a run that save_data ended has     *)
(* entered all but print.  The file is written only by the persist stage,  *)
(* after the summary was attached: a written report holds that summary.    *)
(***************************************************************************)
C8_StagesInOrderAtMostOnce ==
    /\ IsPrefix(trace, StageOrder)
    /\ pc = "done" => trace = StageOrder
    /\ raisedAt = "save_data" => trace = SubSeq(StageOrder, 1, 6)
    /\ data_file # NoFile => Len(trace) >= 6
    /\ data_file.state = "written"
          => /\ "ai_analysis" \in DOMAIN data_file.report
             /\ data_file.report.ai_analysis = ai_analysis
             /\ llmPath # "none"

C8_Witness ==
    /\ pc = "done"
    /\ trace = StageOrder
    /\ data_file.state = "written"
    /\ data_file.report.ai_analysis = <<"a">>
    /\ printed = data_file.report

(***************************************************************************)
(* C9.  Whenever generate_price_history has run, with the clock free to    *)
(* pass midnight between its reads, the 30 dates are 30 consecutive days   *)
(* ending the day before the day the generation began.  Violated: a        *)
(* midnight between two iterations makes the dates skip a day.             *)
(***************************************************************************)
C9_ConsecutiveDays ==
    HistoryDone
        => /\ Len(history) = 30
           /\ \A k \in 1 .. 29 : history[k + 1].date = DayAfter(history[k].date)
           /\ DayAfter(history[30].date) = DateStr(clockReads[1])

(***************************************************************************)
(* C10.  In every run of main the report's spot daily_change_percent is    *)
(* -0.5, so a failed language-model call always yields the falling         *)
(* sentence, never the rising or the flat one.                             *)
(***************************************************************************)
C10_AlwaysFalling ==
    /\ spot_price # Unassigned => spot_price.change = -5
    /\ market_data # Unassigned
          => market_data.spot_price.daily_change_percent = -5
    /\ llmPath = "except"
          => /\ ai_analysis = FallingSentence
             /\ ai_analysis \notin {RisingSentence, FlatSentence}

C10_Witness ==
    /\ pc = "done"
    /\ spotPath = "pair"
    /\ futPath = "match"
    /\ llmPath = "except"
    /\ market_data.spot_price.daily_change_percent = -5
    /\ market_data.ai_analysis = FallingSentence

====
